---- MODULE Spec2Model ----
(***************************************************************************)
(* Model of structured_agent_example: SentimentAgent (agent.py), the       *)
(* rule-based classifier (llm_service.py) and the API-backed classifier    *)
(* (real_llm_service.py).                                                  *)
(*                                                                         *)
(* Python strings are sequences of one-character strings, so that lower(), *)
(* strip(), the `in` substring test and f-string concatenation are         *)
(* computed character by character.  Python values are records             *)
(* [t |-> type name, v |-> payload].                                       *)
(***************************************************************************)
EXTENDS Naturals, Sequences, FiniteSets

(* ------------------------------------------------------------------ *)
(* State                                                               *)
(* ------------------------------------------------------------------ *)
VARIABLES
    heap,    \* the dict objects of the program: object id -> (key -> value)
    agent,   \* the SentimentAgent instance, None before a construction succeeds
    wired,   \* which module agent.py imports as llm_service
    last,    \* the last operation: its arguments, outcome and classifier calls
    model0,  \* history: config["model_name"] when the agent was constructed
    memo     \* history: an earlier run() with no caller action since

vars == <<heap, agent, wired, last, model0, memo>>

(* ------------------------------------------------------------------ *)
(* Bounds of the model                                                 *)
(* ------------------------------------------------------------------ *)
\* texts handed directly to the classifiers are up to MaxTokens tokens long
MaxTokens == 3
\* texts handed to SentimentAgent.run are up to MaxRunTokens tokens long
MaxRunTokens == 1
\* raw backend answers are up to MaxReplyTokens tokens long
MaxReplyTokens == 3
\* the run() calls counted since the remembered one saturate at MaxBetween
MaxBetween == 2

(* ------------------------------------------------------------------ *)
(* String literals of the source                                       *)
(* ------------------------------------------------------------------ *)
positive == <<"p", "o", "s", "i", "t", "i", "v", "e">>
negative == <<"n", "e", "g", "a", "t", "i", "v", "e">>
neutral == <<"n", "e", "u", "t", "r", "a", "l">>
kw_great == <<"g", "r", "e", "a", "t">>
kw_love == <<"l", "o", "v", "e">>
kw_excellent == <<"e", "x", "c", "e", "l", "l", "e", "n", "t">>
kw_bad == <<"b", "a", "d">>
kw_terrible == <<"t", "e", "r", "r", "i", "b", "l", "e">>
kw_hate == <<"h", "a", "t", "e">>
s_success == <<"s", "u", "c", "c", "e", "s", "s">>
s_error == <<"e", "r", "r", "o", "r">>
InvalidMsg == <<"I", "n", "v", "a", "l", "i", "d", " ", "t", "e", "x", "t", " ", "i", "n", "p", "u", "t", ".">>
UnexpectedPrefix == <<"A", "n", " ", "u", "n", "e", "x", "p", "e", "c", "t", "e", "d", " ", "e", "r", "r", "o", "r", " ", "o", "c", "c", "u", "r", "r", "e", "d", ":", " ">>
ConfigMsg == <<"C", "o", "n", "f", "i", "g", "u", "r", "a", "t", "i", "o", "n", " ", "m", "u", "s", "t", " ", "i", "n", "c", "l", "u", "d", "e", " ", "'", "m", "o", "d", "e", "l", "_", "n", "a", "m", "e", "'">>
NoKeyMsg == <<"A", "N", "T", "H", "R", "O", "P", "I", "C", "_", "A", "P", "I", "_", "K", "E", "Y", " ", "e", "n", "v", "i", "r", "o", "n", "m", "e", "n", "t", " ", "v", "a", "r", "i", "a", "b", "l", "e", " ", "i", "s", " ", "n", "o", "t", " ", "s", "e", "t", ".", " ", "G", "e", "t", " ", "y", "o", "u", "r", " ", "A", "P", "I", " ", "k", "e", "y", " ", "a", "t", " ", "h", "t", "t", "p", "s", ":", "/", "/", "c", "o", "n", "s", "o", "l", "e", ".", "a", "n", "t", "h", "r", "o", "p", "i", "c", ".", "c", "o", "m", "/">>
AnalyzingPrefix == <<"A", "n", "a", "l", "y", "z", "i", "n", "g", " ", "s", "e", "n", "t", "i", "m", "e", "n", "t", " ", "f", "o", "r", ":", " ", "'">>
AnalyzingMid == <<"'", " ", "u", "s", "i", "n", "g", " ", "m", "o", "d", "e", "l", ":", " ">>
WarnPrefix == <<"W", "a", "r", "n", "i", "n", "g", ":", " ", "U", "n", "e", "x", "p", "e", "c", "t", "e", "d", " ", "s", "e", "n", "t", "i", "m", "e", "n", "t", " ", "r", "e", "s", "p", "o", "n", "s", "e", " ", "'">>
WarnSuffix == <<"'", ",", " ", "d", "e", "f", "a", "u", "l", "t", "i", "n", "g", " ", "t", "o", " ", "'", "n", "e", "u", "t", "r", "a", "l", "'">>
\* str(e) of the built-in errors the interpreter raises in the modelled code
IndexMsg == <<"l", "i", "s", "t", " ", "i", "n", "d", "e", "x", " ", "o", "u", "t", " ", "o", "f", " ", "r", "a", "n", "g", "e">>
KeyErrMsg == <<"'", "m", "o", "d", "e", "l", "_", "n", "a", "m", "e", "'">>

(* ------------------------------------------------------------------ *)
(* Python values                                                       *)
(* ------------------------------------------------------------------ *)
None == [t |-> "NoneType"]
Str(s) == [t |-> "str", v |-> s]
Int(n) == [t |-> "int", v |-> n]
List(l) == [t |-> "list", v |-> l]
Exc(cls, msg) == [t |-> "exception", cls |-> cls, v |-> msg]

\* bool(x) for the built-in types above
truthy(x) ==
    CASE x.t = "NoneType" -> FALSE
      [] x.t = "str" -> Len(x.v) > 0
      [] x.t = "int" -> x.v # 0
      [] x.t = "list" -> Len(x.v) > 0

isinstance_str(x) == x.t = "str"

\* str(e) of an exception built from one message argument
str_exc(e) == e.v

(* ------------------------------------------------------------------ *)
(* str.lower(), str.strip(), the `in` operator                          *)
(* ------------------------------------------------------------------ *)
LowerTable ==
    [A |-> "a", B |-> "b", C |-> "c", D |-> "d", E |-> "e", F |-> "f",
     G |-> "g", H |-> "h", I |-> "i", J |-> "j", K |-> "k", L |-> "l",
     M |-> "m", N |-> "n", O |-> "o", P |-> "p", Q |-> "q", R |-> "r",
     S |-> "s", T |-> "t", U |-> "u", V |-> "v", W |-> "w", X |-> "x",
     Y |-> "y", Z |-> "z"]

lower_char(c) == IF c \in DOMAIN LowerTable THEN LowerTable[c] ELSE c

str_lower(s) == [i \in 1..Len(s) |-> lower_char(s[i])]

Whitespace == {" ", "\t", "\n", "\r", "\f"}

str_strip(s) ==
    LET keep == {i \in 1..Len(s) : s[i] \notin Whitespace}
    IN  IF keep = {} THEN <<>>
        ELSE LET lo == CHOOSE i \in keep : \A j \in keep : i <= j
                 hi == CHOOSE i \in keep : \A j \in keep : j <= i
             IN  SubSeq(s, lo, hi)

\* sub in s
str_in(sub, s) ==
    \E i \in 0..(Len(s) - Len(sub)) : SubSeq(s, i + 1, i + Len(sub)) = sub

(* ------------------------------------------------------------------ *)
(* llm_service.get_sentiment: the rule-based classifier                 *)
(* A call result is [raised, value, out]: whether it raised, the value  *)
(* returned or the exception raised, and the lines it printed.          *)
(* ------------------------------------------------------------------ *)
\* variant: the negative keywords are tested before the positive ones
get_sentiment_negative_first(text, model) ==
    LET text_lower == str_lower(text)
        line == AnalyzingPrefix \o text \o AnalyzingMid \o model
    IN  [raised |-> FALSE,
         value  |-> IF \/ str_in(kw_bad, text_lower)
                       \/ str_in(kw_terrible, text_lower)
                       \/ str_in(kw_hate, text_lower)
                    THEN Str(negative)
                    ELSE IF \/ str_in(kw_great, text_lower)
                            \/ str_in(kw_love, text_lower)
                            \/ str_in(kw_excellent, text_lower)
                         THEN Str(positive)
                         ELSE Str(neutral),
         out    |-> <<line>>]

get_sentiment(text, model) ==
    LET text_lower == str_lower(text)
        line == AnalyzingPrefix \o text \o AnalyzingMid \o model
    IN  [raised |-> FALSE,
         value  |-> IF \/ str_in(kw_great, text_lower)
                       \/ str_in(kw_love, text_lower)
                       \/ str_in(kw_excellent, text_lower)
                    THEN Str(positive)
                    ELSE IF \/ str_in(kw_bad, text_lower)
                            \/ str_in(kw_terrible, text_lower)
                            \/ str_in(kw_hate, text_lower)
                         THEN Str(negative)
                         ELSE Str(neutral),
         out    |-> <<line>>]

(* ------------------------------------------------------------------ *)
(* real_llm_service.get_sentiment: the API-backed classifier            *)
(* api_key is the value of os.environ.get("ANTHROPIC_API_KEY"); reply   *)
(* is what client.messages.create does: it raises an API error, or      *)
(* returns a message whose content is empty or starts with a text block.*)
(* ------------------------------------------------------------------ *)
valid_sentiments == {positive, negative, neutral}

\* variant: the normalised answer is returned without the membership test
real_get_sentiment_unvalidated(text, model, api_key, reply) ==
    IF ~truthy(api_key)
    THEN [raised |-> TRUE, value |-> Exc("RuntimeError", NoKeyMsg), out |-> <<>>]
    ELSE IF reply.kind = "api_error"
    THEN [raised |-> TRUE, value |-> Exc("APIError", reply.desc), out |-> <<>>]
    ELSE IF reply.kind = "empty_content"
    THEN [raised |-> TRUE, value |-> Exc("IndexError", IndexMsg), out |-> <<>>]
    ELSE [raised |-> FALSE, value |-> Str(str_lower(str_strip(reply.text))),
          out |-> <<>>]

real_get_sentiment(text, model, api_key, reply) ==
    IF ~truthy(api_key)
    THEN [raised |-> TRUE, value |-> Exc("RuntimeError", NoKeyMsg), out |-> <<>>]
    ELSE IF reply.kind = "api_error"
    THEN [raised |-> TRUE, value |-> Exc("APIError", reply.desc), out |-> <<>>]
    ELSE IF reply.kind = "empty_content"
    THEN [raised |-> TRUE, value |-> Exc("IndexError", IndexMsg), out |-> <<>>]
    ELSE LET raw_response == str_lower(str_strip(reply.text))
         IN  IF raw_response \notin valid_sentiments
             THEN [raised |-> FALSE, value |-> Str(neutral),
                   out |-> <<WarnPrefix \o raw_response \o WarnSuffix>>]
             ELSE [raised |-> FALSE, value |-> Str(raw_response), out |-> <<>>]

\* the one dict the caller builds and hands to SentimentAgent(config)
CallerDict == "d1"

Keys == {"model_name", "temperature"}
m1 == <<"t", "e", "s", "t", "-", "m", "o", "d", "e", "l", "-", "v", "1">>
m2 == <<"m", "2">>
Models == {m1, m2}
\* the values the caller stores under each key
ValuesOf(k) == IF k = "model_name" THEN Models ELSE {<<"0", ".", "2">>}

NoCall == [op |-> "none", arg |-> None, raised |-> FALSE, value |-> None,
           calls |-> <<>>, out |-> <<>>]

Init ==
    /\ heap = [o \in {CallerDict} |-> <<>>]
    /\ agent = None
    /\ wired \in {"stub", "remote"}
    /\ last = NoCall
    /\ model0 = None
    /\ memo = None

(* ------------------------------------------------------------------ *)
(* SentimentAgent                                                      *)
(* ------------------------------------------------------------------ *)
\* variant: only an empty configuration is refused
SentimentAgent_init_nonempty(config, h) ==
    IF DOMAIN h[config] = {}
    THEN [raised |-> TRUE, value |-> Exc("ValueError", ConfigMsg)]
    ELSE [raised |-> FALSE, value |-> [t |-> "SentimentAgent", config |-> config]]

\* SentimentAgent.__init__: self.config = config stores the reference
SentimentAgent_init(config, h) ==
    IF "model_name" \notin DOMAIN h[config]
    THEN [raised |-> TRUE, value |-> Exc("ValueError", ConfigMsg)]
    ELSE [raised |-> FALSE, value |-> [t |-> "SentimentAgent", config |-> config]]

\* the classes the modelled classifiers raise all derive from Exception
ExceptionClasses == {"RuntimeError", "APIError", "IndexError", "ValueError", "KeyError"}
is_Exception(e) == e.cls \in ExceptionClasses

\* variant: a one-entry cache hands back the label of the preceding call
llm_service_get_sentiment_cached(text, model, env) ==
    IF last.op = "run" /\ last.calls # <<>> /\ ~last.calls[1].raised
    THEN [raised |-> FALSE, value |-> last.calls[1].value, out |-> <<>>]
    ELSE IF wired = "stub"
    THEN get_sentiment(text, model)
    ELSE real_get_sentiment(text, model, env.api_key, env.reply)

\* llm_service.get_sentiment as bound in agent.py by the import
llm_service_get_sentiment(text, model, env) ==
    IF wired = "stub"
    THEN get_sentiment(text, model)
    ELSE real_get_sentiment(text, model, env.api_key, env.reply)

\* variant: the emptiness test is missing
invalid_text_type_only(text_input) == ~isinstance_str(text_input)

\* the guard of run's first return
invalid_text(text_input) == ~truthy(text_input) \/ ~isinstance_str(text_input)

invalid_response ==
    [status |-> Str(s_error), message |-> Str(InvalidMsg), sentiment |-> None]

\* variant: the text is stripped before it is echoed
success_response_stripped(text_input, sentiment) ==
    [status |-> Str(s_success), input |-> Str(str_strip(text_input.v)),
     sentiment |-> sentiment]

success_response(text_input, sentiment) ==
    [status |-> Str(s_success), input |-> text_input, sentiment |-> sentiment]

\* variant: the failure's description is left out of the message
error_response_no_description(e) ==
    [status |-> Str(s_error), message |-> Str(UnexpectedPrefix), sentiment |-> None]

\* variant: a failure is reported with a default label
error_response_default_label(e) ==
    [status |-> Str(s_error), message |-> Str(UnexpectedPrefix \o str_exc(e)),
     sentiment |-> Str(neutral)]

error_response(e) ==
    [status |-> Str(s_error), message |-> Str(UnexpectedPrefix \o str_exc(e)),
     sentiment |-> None]

\* SentimentAgent.run: [raised, value, calls, out]
run(self, h, text_input, env) ==
    IF invalid_text(text_input)
    THEN [raised |-> FALSE, value |-> invalid_response, calls |-> <<>>, out |-> <<>>]
    ELSE IF "model_name" \notin DOMAIN h[self.config]
    THEN [raised |-> TRUE, value |-> Exc("KeyError", KeyErrMsg),
          calls |-> <<>>, out |-> <<>>]
    ELSE LET model_name == h[self.config]["model_name"]
             r == llm_service_get_sentiment(text_input.v, model_name, env)
             call == [text |-> text_input.v, model |-> model_name,
                      raised |-> r.raised, value |-> r.value]
         IN  IF ~r.raised
             THEN [raised |-> FALSE,
                   value  |-> success_response(text_input, r.value),
                   calls  |-> <<call>>, out |-> r.out]
             ELSE IF is_Exception(r.value)
             THEN [raised |-> FALSE,
                   value  |-> error_response(r.value),
                   calls  |-> <<call>>, out |-> r.out]
             ELSE [raised |-> TRUE, value |-> r.value,
                   calls |-> <<call>>, out |-> r.out]

(* ------------------------------------------------------------------ *)
(* Inputs                                                              *)
(* ------------------------------------------------------------------ *)
RECURSIVE TokenStrings(_, _)
\* the concatenations of at most n tokens of T
TokenStrings(T, n) ==
    IF n = 0 THEN {<<>>}
    ELSE LET prev == TokenStrings(T, n - 1)
         IN  prev \cup {p \o t : p \in prev, t \in T}

StubTokens ==
    {<<"g", "r", "e", "a", "t">>, <<"L", "O", "V", "E">>,
     <<"E", "x", "c", "e", "l", "l", "e", "n", "t">>, <<"b", "a", "d">>,
     <<"T", "e", "r", "r", "i", "b", "l", "e">>, <<"h", "A", "T", "e">>,
     <<" ">>, <<"g", "r", "e">>, <<"a", "t">>, <<"x">>}

RunTokens == {<<" ", " ", "l", "o", "v", "e", " ">>, <<"B", "a", "d">>, <<"o", "k">>}

ReplyTokens ==
    {<<"p", "o", "s", "i", "t", "i", "v", "e">>, <<"N", "e", "g", "a", "t", "i", "v", "e">>,
     <<"N", "E", "U", "T", "R", "A", "L">>, <<"m", "i", "x", "e", "d">>, <<" ">>, <<"\n">>}

ApiErrorDescs ==
    {<<>>, <<"A", "P", "I", " ", "c", "o", "n", "n", "e", "c", "t", "i", "o", "n", " ", "f", "a", "i", "l", "e", "d">>}

ApiKey == Str(<<"s", "k", "-", "a", "n", "t">>)

ClassifierTexts == TokenStrings(StubTokens, MaxTokens)

RunInputs ==
    {None, Int(0), Int(12345), List(<<>>), List(<<Int(1)>>)}
        \cup {Str(s) : s \in TokenStrings(RunTokens, MaxRunTokens)}

Reply(kind, text, desc) == [kind |-> kind, text |-> text, desc |-> desc]

Replies(n) ==
    {Reply("api_error", <<>>, d) : d \in ApiErrorDescs}
        \cup {Reply("empty_content", <<>>, <<>>)}
        \cup {Reply("text", s, <<>>) : s \in TokenStrings(ReplyTokens, n)}

NoEnv == [api_key |-> None, reply |-> Reply("empty_content", <<>>, <<>>)]

\* what the environment can do to one classifier call made by run()
RunEnvs ==
    IF wired = "stub" THEN {NoEnv}
    ELSE {NoEnv, [api_key |-> Str(<<>>), reply |-> Reply("empty_content", <<>>, <<>>)]}
             \cup {[api_key |-> ApiKey, reply |-> r] : r \in Replies(1)}

\* whether this run() is the earlier call a later one is compared with
Remember == IF wired = "stub" THEN BOOLEAN ELSE {FALSE}

(* ------------------------------------------------------------------ *)
(* Actions                                                             *)
(* ------------------------------------------------------------------ *)
dict_set(d, k, v) == [x \in DOMAIN d \cup {k} |-> IF x = k THEN v ELSE d[x]]
dict_del(d, k) == [x \in DOMAIN d \ {k} |-> d[x]]

\* the caller executes config[k] = v on the dict it owns
CallerSet(k, v) ==
    /\ heap' = [heap EXCEPT ![CallerDict] = dict_set(@, k, v)]
    /\ last' = [NoCall EXCEPT !.op = "setitem"]
    /\ memo' = None
    /\ UNCHANGED <<agent, wired, model0>>

\* the caller executes del config[k]
CallerDel(k) ==
    /\ k \in DOMAIN heap[CallerDict]
    /\ heap' = [heap EXCEPT ![CallerDict] = dict_del(@, k)]
    /\ last' = [NoCall EXCEPT !.op = "delitem"]
    /\ memo' = None
    /\ UNCHANGED <<agent, wired, model0>>

\* the caller executes agent = SentimentAgent(config)
Construct ==
    /\ agent = None
    /\ LET r == SentimentAgent_init(CallerDict, heap)
       IN  /\ agent' = IF r.raised THEN agent ELSE r.value
           /\ model0' = IF r.raised \/ "model_name" \notin DOMAIN heap[CallerDict]
                        THEN model0
                        ELSE Str(heap[CallerDict]["model_name"])
           /\ last' = [op |-> "init", arg |-> [t |-> "dict", v |-> heap[CallerDict]],
                       raised |-> r.raised,
                       value |-> IF r.raised THEN r.value ELSE None,
                       calls |-> <<>>, out |-> <<>>]
    /\ UNCHANGED <<heap, wired, memo>>

\* the caller executes agent.run(text_input)
Run(text_input, env, remember) ==
    /\ agent # None
    /\ LET r == run(agent, heap, text_input, env)
       IN  /\ last' = [op |-> "run", arg |-> text_input, raised |-> r.raised,
                       value |-> r.value, calls |-> r.calls, out |-> r.out]
           /\ memo' = IF remember
                      THEN [t |-> "memo", arg |-> text_input, raised |-> r.raised,
                            value |-> r.value, between |-> 0]
                      ELSE IF memo # None /\ memo.between < MaxBetween
                      THEN [memo EXCEPT !.between = @ + 1]
                      ELSE memo
    /\ UNCHANGED <<heap, agent, wired, model0>>

Next ==
    \/ \E k \in Keys : \E v \in ValuesOf(k) : CallerSet(k, v)
    \/ \E k \in Keys : CallerDel(k)
    \/ Construct
    \/ \E text_input \in RunInputs, env \in RunEnvs, remember \in Remember :
           Run(text_input, env, remember)

Spec == Init /\ [][Next]_vars

(* ------------------------------------------------------------------ *)
(* The classifiers called directly, once, on an input drawn from the   *)
(* bounded sets                                                        *)
(* ------------------------------------------------------------------ *)
StubCall(text, model) ==
    /\ last.op = "none"
    /\ LET r == get_sentiment(text, model)
       IN  last' = [op |-> "get_sentiment",
                    arg |-> [text |-> text, model |-> model, reply |-> None],
                    raised |-> r.raised, value |-> r.value,
                    calls |-> <<>>, out |-> r.out]
    /\ UNCHANGED <<heap, agent, wired, model0, memo>>

RemoteCall(text, model, api_key, reply) ==
    /\ last.op = "none"
    /\ LET r == real_get_sentiment(text, model, api_key, reply)
       IN  last' = [op |-> "real_get_sentiment",
                    arg |-> [text |-> text, model |-> model,
                             reply |-> [t |-> "reply", api_key |-> api_key, v |-> reply]],
                    raised |-> r.raised, value |-> r.value,
                    calls |-> <<>>, out |-> r.out]
    /\ UNCHANGED <<heap, agent, wired, model0, memo>>

\* the environments of a direct call: no usable key, or a key and any reply
RemoteEnvs ==
    {[api_key |-> k, reply |-> Reply("text", positive, <<>>)] : k \in {None, Str(<<>>)}}
        \cup {[api_key |-> ApiKey, reply |-> r] : r \in Replies(MaxReplyTokens)}

ClassifierNext ==
    \/ \E text \in ClassifierTexts : StubCall(text, m1)
    \/ \E env \in RemoteEnvs : RemoteCall(<<"o", "k">>, m1, env.api_key, env.reply)

ClassifierInit == Init /\ wired = "stub"

ClassifierSpec == ClassifierInit /\ [][ClassifierNext]_vars

(* ------------------------------------------------------------------ *)
(* Properties                                                          *)
(* ------------------------------------------------------------------ *)
Labels == {Str(positive), Str(negative), Str(neutral)}

\* the text of the last run() is a non-empty string
ValidRunText == last.arg.t = "str" /\ last.arg.v # <<>>

\* the last run() called the classifier
Called == last.calls # <<>>

\* C1: after a successful construction every run(text) call returns a
\* response with a status field; run never raises to the caller.
C1_RunNeverRaises ==
    last.op = "run" => ~last.raised /\ "status" \in DOMAIN last.value

\* C2: for a text that is None, not a string or the empty string, run returns
\* exactly {status: error, message: "Invalid text input.", sentiment: None} and
\* the classifier is not called.
C2_InvalidInput ==
    (last.op = "run" /\ ~ValidRunText) =>
        /\ ~last.raised
        /\ last.value = [status |-> Str(s_error), message |-> Str(InvalidMsg),
                         sentiment |-> None]
        /\ last.calls = <<>>

\* an invalid input handled while the configuration has lost its model_name
C2_Witness ==
    /\ last.op = "run"
    /\ last.arg = Int(12345)
    /\ "model_name" \notin DOMAIN heap[agent.config]
    /\ ~last.raised
    /\ last.value.message = Str(InvalidMsg)

\* C3: for a valid text whose classifier call raises, run returns status error,
\* sentiment None and the message "An unexpected error occurred: " followed by
\* the description of the failure, with no success field.
C3_ClassifierFailure ==
    (last.op = "run" /\ ValidRunText /\ Called /\ last.calls[1].raised) =>
        /\ ~last.raised
        /\ last.value.status = Str(s_error)
        /\ last.value.sentiment = None
        /\ last.value.message = Str(UnexpectedPrefix \o last.calls[1].value.v)
        /\ DOMAIN last.value = {"status", "message", "sentiment"}

\* a classifier failure with a non-empty description, absorbed by run
C3_Witness ==
    /\ last.op = "run"
    /\ Called
    /\ last.calls[1].raised
    /\ last.calls[1].value.cls = "APIError"
    /\ last.calls[1].value.v # <<>>
    /\ ~last.raised

\* C4: for a valid text whose classifier call completes normally, run calls
\* the classifier exactly once with (text, model = config["model_name"]) and
\* returns status success, the label the classifier returned and the caller's
\* text unchanged.
C4_Success ==
    (last.op = "run" /\ ValidRunText /\ Called /\ ~last.calls[1].raised) =>
        /\ Len(last.calls) = 1
        /\ last.calls[1].text = last.arg.v
        /\ last.calls[1].model = heap[agent.config]["model_name"]
        /\ ~last.raised
        /\ last.value = [status |-> Str(s_success), input |-> last.arg,
                         sentiment |-> last.calls[1].value]

\* a success whose text starts and ends with whitespace
C4_Witness ==
    /\ last.op = "run"
    /\ ~last.raised
    /\ last.value.status = Str(s_success)
    /\ last.arg.v[1] = " "
    /\ last.arg.v[Len(last.arg.v)] = " "
    /\ last.value.input = last.arg

\* C5: in every response run returns, sentiment is not None exactly when
\* status is success.
C5_SentimentIffSuccess ==
    (last.op = "run" /\ ~last.raised) =>
        (last.value.sentiment # None <=> last.value.status = Str(s_success))

\* an error response built from a classifier failure
C5_Witness ==
    /\ last.op = "run"
    /\ ~last.raised
    /\ Called
    /\ last.value.status = Str(s_error)
    /\ last.value.sentiment = None

\* C6: construction raises a configuration error exactly when the configuration
\* lacks the model_name key, and then no agent exists; otherwise it succeeds and
\* the agent exposes the model_name that was supplied.
C6_Construction ==
    last.op = "init" =>
        /\ last.raised <=> "model_name" \notin DOMAIN last.arg.v
        /\ last.raised => last.value.cls = "ValueError" /\ agent = None
        /\ ~last.raised =>
               /\ agent # None
               /\ heap[agent.config]["model_name"] = last.arg.v["model_name"]

\* a refused construction from a non-empty configuration
C6_Witness ==
    /\ last.op = "init"
    /\ last.raised
    /\ DOMAIN last.arg.v = {"temperature"}
    /\ agent = None

\* C7: the agent's configuration is read-only after construction: model_name
\* stays present and equal to its value at construction, and every classifier
\* call of run is made with that value.
C7_ConfigReadOnly ==
    agent # None =>
        /\ "model_name" \in DOMAIN heap[agent.config]
        /\ Str(heap[agent.config]["model_name"]) = model0
        /\ last.op = "run" =>
               \A i \in 1..Len(last.calls) : Str(last.calls[i].model) = model0

\* C8: every value a classifier returns is positive, negative or neutral; the
\* API-backed one returns the stripped, lower-cased backend answer when that is
\* one of the three labels, and otherwise prints a warning and returns neutral.
C8_LabelSet ==
    /\ (last.op \in {"get_sentiment", "real_get_sentiment"} /\ ~last.raised) =>
           last.value \in Labels
    /\ (last.op = "real_get_sentiment" /\ ~last.raised) =>
           LET answer == str_lower(str_strip(last.arg.reply.v.text))
           IN  IF answer \in {positive, negative, neutral}
               THEN last.value = Str(answer) /\ last.out = <<>>
               ELSE /\ last.value = Str(neutral)
                    /\ last.out = <<WarnPrefix \o answer \o WarnSuffix>>

\* an out-of-set backend answer replaced by neutral, with the warning printed
C8_Witness ==
    /\ last.op = "real_get_sentiment"
    /\ ~last.raised
    /\ str_in(<<"m", "i", "x", "e", "d">>, last.arg.reply.v.text)
    /\ last.value = Str(neutral)
    /\ Len(last.out) = 1

\* kw occurs in text at offset i, letters compared without regard to case
OccursAt(kw, text, i) ==
    /\ i + Len(kw) <= Len(text)
    /\ \A j \in 1..Len(kw) : lower_char(text[i + j]) = kw[j]

Mentions(kws, text) == \E kw \in kws : \E i \in 0..Len(text) : OccursAt(kw, text, i)

PositiveKeywords == {kw_great, kw_love, kw_excellent}
NegativeKeywords == {kw_bad, kw_terrible, kw_hate}

\* C9: the rule-based classifier returns positive when the text mentions a
\* positive keyword (even if it also mentions a negative one), negative when it
\* mentions a negative keyword and no positive one, and neutral otherwise.
C9_StubPolicy ==
    last.op = "get_sentiment" =>
        /\ ~last.raised
        /\ last.value =
               IF Mentions(PositiveKeywords, last.arg.text) THEN Str(positive)
               ELSE IF Mentions(NegativeKeywords, last.arg.text) THEN Str(negative)
               ELSE Str(neutral)

\* a text mentioning a negative keyword before a positive one
C9_Witness ==
    /\ last.op = "get_sentiment"
    /\ OccursAt(kw_hate, last.arg.text, 0)
    /\ Mentions(PositiveKeywords, last.arg.text)
    /\ last.value = Str(positive)

\* C10: with the rule-based classifier, a run call returns what an earlier run
\* call with the same text returned, whatever run calls came between, and the
\* label does not depend on the model identifier.
C10_NoCrossCallState ==
    (last.op = "run" /\ wired = "stub") =>
        /\ (memo # None /\ memo.arg = last.arg) =>
               last.raised = memo.raised /\ last.value = memo.value
        /\ Called =>
               \A m \in Models :
                   get_sentiment(last.calls[1].text, m).value = last.calls[1].value

\* the same valid text again after MaxBetween or more other run calls
C10_Witness ==
    /\ last.op = "run"
    /\ wired = "stub"
    /\ memo # None
    /\ memo.between = MaxBetween
    /\ memo.arg = last.arg
    /\ Called
    /\ last.value.status = Str(s_success)

====
